---------------------------- MODULE Spec2Model ----------------------------
(***************************************************************************)
(* Model of the "Urban Pulpit" dashboard (populated_cities):               *)
(*   src/data_loader.py  load_data (cached loader and normaliser)          *)
(*   src/main.py         the Streamlit script, run top to bottom on every  *)
(*                       user interaction                                  *)
(* One script run is a sequence of steps (pc); the data cache and          *)
(* st.session_state outlive a run, every other variable of the script is   *)
(* rebuilt by each run.                                                    *)
(***************************************************************************)
EXTENDS Integers, Sequences, FiniteSets, TLC

(***************************************************************************)
(* Bounds of the model.                                                    *)
(***************************************************************************)
\* longest raw table read_csv may return
MaxRows == 4
\* df.head(5000) of data_loader.py line 43, scaled to the tables of the model
HeadLimit == 2
\* target_year - current_year ranges over -MaxYearsBack .. MaxYearsAhead
\* (the slider offers 2025..2050, current_year is the wall clock's year)
MaxYearsBack == 1
MaxYearsAhead == 1

(***************************************************************************)
(* Program constants.                                                      *)
(***************************************************************************)
\* df[df['population'] > 10000]
MinPopulation == 10000
\* value=(100_000, max_pop)
DefaultMinPop == 100000
\* growth_rate = 1.011, as the fraction GrowthNum / GrowthDen
GrowthNum == 1011
GrowthDen == 1000
\* st.session_state['view_zoom'] = 10 (Surprise Me) and = 2 (first map)
SurpriseZoom == 10
InitialZoom == 2

(***************************************************************************)
(* Cells of a data frame.  A numeric column holds numbers, text that does  *)
(* not parse, or NaN (an empty CSV field); a text column holds a string or *)
(* NaN.                                                                    *)
(***************************************************************************)
Num(v) == [k |-> "num", v |-> v]
Text == [k |-> "text", v |-> 0]
NaN == [k |-> "nan", v |-> 0]
Str(s) == [k |-> "str", s |-> s]
NaS == [k |-> "nan", s |-> ""]
\* the cell of a column the frame does not have: reading it is a KeyError
NoNum == [k |-> "nocol", v |-> 0]
NoStr == [k |-> "nocol", s |-> ""]

\* The six header columns of the source CSV.
RawColumns == {"name", "country_name", "latitude", "longitude", "population", "timezone"}

\* rename_map
rename_map(c) ==
    CASE c = "name" -> "city"
      [] c = "country_name" -> "country"
      [] c = "latitude" -> "lat"
      [] c = "longitude" -> "lon"
      [] c = "population" -> "population"
      [] c = "timezone" -> "timezone"
      [] OTHER -> c

(***************************************************************************)
(* Raw rows the source may hold.  Populations are chosen to sit on the     *)
(* cases of the code: on and around the 10000 threshold, a tie, a value    *)
(* below and values above the slider's default lower end.                  *)
(***************************************************************************)
RawRow(n, c, la, lo, p, tz) ==
    [name |-> n, country_name |-> c, latitude |-> la, longitude |-> lo,
     population |-> p, timezone |-> tz]

Catalogue ==
    { RawRow(Str("Tokyo"), Str("Japan"), Num(36), Num(140), Num(1000000), Str("Asia/Tokyo")),
      RawRow(Str("Lyon"), Str("France"), Num(46), Num(5), Num(150000), NaS),
      RawRow(Str("Nice"), Str("France"), Num(44), Num(7), Num(150000), Str("Mars/Phobos")),
      RawRow(Str("Gex"), Str("France"), Num(46), Num(6), Num(10050), Str("Europe/Paris")),
      RawRow(Str("Hamlet"), Str("France"), Num(45), Num(1), Num(10000), Str("Europe/Paris")),
      RawRow(Str("Nolat"), Str("Japan"), Text, Num(135), Num(1000000), Str("Asia/Tokyo")),
      RawRow(Str("Nopop"), Str("Japan"), Num(20), Num(80), NaN, Str("Asia/Tokyo")),
      RawRow(NaS, Str("Japan"), Num(35), Num(136), Num(150000), Str("Asia/Tokyo")) }

\* every table a complete source may hold: up to MaxRows rows, in any order
Tables == UNION { [1..n -> Catalogue] : n \in 0..MaxRows }

\* a row as read from a source whose header is `header`
ReadRow(r, header) ==
    [name |-> IF "name" \in header THEN r.name ELSE NoStr,
     country_name |-> IF "country_name" \in header THEN r.country_name ELSE NoStr,
     latitude |-> IF "latitude" \in header THEN r.latitude ELSE NoNum,
     longitude |-> IF "longitude" \in header THEN r.longitude ELSE NoNum,
     population |-> IF "population" \in header THEN r.population ELSE NoNum,
     timezone |-> IF "timezone" \in header THEN r.timezone ELSE NoStr]

\* pd.read_csv(DATA_URL) on a reachable, well-formed source
read_csv(t, header) == [i \in 1..Len(t) |-> ReadRow(t[i], header)]

(***************************************************************************)
(* load_data, step by step.                                                *)
(***************************************************************************)
\* df.rename(columns=rename_map): columns absent from the source are skipped
Rename(cols) == { rename_map(c) : c \in cols }

RenameRow(r) ==
    [city |-> r.name, country |-> r.country_name, lat |-> r.latitude,
     lon |-> r.longitude, population |-> r.population, timezone |-> r.timezone]

\* pd.to_numeric(..., errors='coerce'): what does not parse becomes NaN
to_numeric(cell) == IF cell.k = "num" THEN cell ELSE NaN

Coerce(r) ==
    [r EXCEPT !.lat = to_numeric(r.lat), !.lon = to_numeric(r.lon),
              !.population = to_numeric(r.population)]

\* mutant: 'country' left out of the dropna subset
RequiredColumnsNoCountry == {"lat", "lon", "population", "city"}

\* the columns load_data indexes or names in dropna: a missing one is a KeyError
RequiredColumns == {"lat", "lon", "population", "city", "country"}

\* mutant: 'lat' left out of the dropna subset
HasCriticalNoLat(r) ==
    /\ r.lon.k # "nan"
    /\ r.population.k # "nan"
    /\ r.city.k # "nan"
    /\ r.country.k # "nan"

\* dropna(subset=['lat', 'lon', 'population', 'city', 'country'])
HasCritical(r) ==
    /\ r.lat.k # "nan"
    /\ r.lon.k # "nan"
    /\ r.population.k # "nan"
    /\ r.city.k # "nan"
    /\ r.country.k # "nan"

\* df['population'] > 10000 (a comparison with NaN is False)
AboveMin(r) == r.population.k = "num" /\ r.population.v > MinPopulation

RemoveAt(s, i) == [j \in 1..(Len(s) - 1) |-> IF j < i THEN s[j] ELSE s[j + 1]]

\* indexes of the rows with the largest population
MaxIdx(rows) ==
    { i \in 1..Len(rows) : \A j \in 1..Len(rows) : rows[j].population.v <= rows[i].population.v }

RECURSIVE StableSortDesc(_)
\* the stable descending sort the specification describes (kind='stable'):
\* among equal populations the earliest row first
StableSortDesc(rows) ==
    IF rows = <<>> THEN <<>>
    ELSE LET i == CHOOSE i \in MaxIdx(rows) : \A j \in MaxIdx(rows) : i <= j
         IN  <<rows[i]>> \o StableSortDesc(RemoveAt(rows, i))

\* mutant: ascending=True
sort_ascending(rows) ==
    LET s == StableSortDesc(rows)
    IN  { [i \in 1..Len(s) |-> s[Len(s) + 1 - i]] }

RECURSIVE sort_values(_)
\* df.sort_values(by='population', ascending=False): no kind is given, so the
\* sort is pandas' default quicksort, which is not stable: every descending
\* arrangement of the rows is an outcome some build and input size produce.
sort_values(rows) ==
    IF rows = <<>> THEN {<<>>}
    ELSE UNION { { <<rows[i]>> \o rest : rest \in sort_values(RemoveAt(rows, i)) } :
                 i \in MaxIdx(rows) }

\* df.head(5000)
head(rows, n) == IF Len(rows) <= n THEN rows ELSE SubSeq(rows, 1, n)

\* the frame before the sort: rename, coerce, dropna, population filter
Cleaned(rows) ==
    LET renamed == [i \in 1..Len(rows) |-> Coerce(RenameRow(rows[i]))]
        kept == SelectSeq(renamed, HasCritical)
    IN  SelectSeq(kept, AboveMin)

\* pd.DataFrame(): no rows, no columns
EmptyFrame == [cols |-> {}, rows |-> <<>>]

(***************************************************************************)
(* main.py: sidebar.                                                       *)
(***************************************************************************)
Range(s) == { s[i] : i \in 1..Len(s) }

\* sorted(df['country'].unique()), as the set the multiselect offers
countries(rows) == { r.country.s : r \in Range(rows) }

Pops(rows) == [i \in 1..Len(rows) |-> rows[i].population.v]

\* int(df['population'].min()), int(df['population'].max())
PopMin(rows) == CHOOSE p \in Range(Pops(rows)) : \A q \in Range(Pops(rows)) : p <= q
PopMax(rows) == CHOOSE p \in Range(Pops(rows)) : \A q \in Range(Pops(rows)) : q <= p

\* st.sidebar.slider(min_value, max_value, value=(100_000, max_pop)) raises
\* when the default value lies outside [min_value, max_value]
SliderAccepts(lo, hi) == lo <= DefaultMinPop /\ DefaultMinPop <= hi

\* the ranges the user is offered: both ends within [min_pop, max_pop]
SliderRanges(lo, hi) ==
    { <<a, b>> \in {lo, DefaultMinPop, hi} \X {lo, DefaultMinPop, hi} : a <= b }

(***************************************************************************)
(* main.py: Time Machine.  growth_rate ** years_diff is computed exactly   *)
(* here, as a number in base GrowthDen: an integer part and the digits     *)
(* after the point.                                                        *)
(***************************************************************************)
RECURSIVE MulDigits(_)
\* the digits times GrowthNum: [d: the digits, c: the carry out]
MulDigits(ds) ==
    IF ds = <<>> THEN [d |-> <<>>, c |-> 0]
    ELSE LET rest == MulDigits(Tail(ds))
             t == Head(ds) * GrowthNum + rest.c
         IN  [d |-> <<t % GrowthDen>> \o rest.d, c |-> t \div GrowthDen]

\* x * GrowthNum / GrowthDen
Grow(x) ==
    LET m == MulDigits(x.frac)
        i == x.int * GrowthNum + m.c
    IN  [int |-> i \div GrowthDen, frac |-> <<i % GrowthDen>> \o m.d]

RECURSIVE GrowBy(_, _)
\* p * (GrowthNum / GrowthDen) ^ d, d >= 0
GrowBy(x, d) == IF d = 0 THEN x ELSE GrowBy(Grow(x), d - 1)

RECURSIVE IntPow(_, _)
IntPow(b, e) == IF e = 0 THEN 1 ELSE b * IntPow(b, e - 1)

RECURSIVE Digits(_)
\* p in base GrowthDen, most significant digit first
Digits(p) == IF p < GrowthDen THEN <<p>> ELSE Digits(p \div GrowthDen) \o <<p % GrowthDen>>

RECURSIVE LongDiv(_, _, _, _)
\* long division of the number with digits ds by D: [q: quotient, r: remainder]
LongDiv(ds, D, q, r) ==
    IF ds = <<>> THEN [q |-> q, r |-> r]
    ELSE LET cur == r * GrowthDen + Head(ds)
         IN  LongDiv(Tail(ds), D, q * GrowthDen + cur \div D, cur % D)

\* p * (GrowthNum / GrowthDen) ^ d as [floor, whether it is an integer,
\* cmpHalf: the fraction compared with 1/2 (-1 below, 0 equal, 1 above)]
Exact(p, d) ==
    IF d >= 0
    THEN LET x == GrowBy([int |-> p, frac |-> <<>>], d)
             zero == \A i \in 1..Len(x.frac) : x.frac[i] = 0
             rest == \A i \in 2..Len(x.frac) : x.frac[i] = 0
             half == IF Len(x.frac) = 0 THEN -1
                     ELSE IF 2 * x.frac[1] < GrowthDen THEN -1
                     ELSE IF 2 * x.frac[1] = GrowthDen /\ rest THEN 0 ELSE 1
         IN  [floor |-> x.int, integer |-> zero, cmpHalf |-> half]
    ELSE LET D == IntPow(GrowthNum, -d)
             n == Digits(p) \o [i \in 1..(-d) |-> 0]
             x == LongDiv(n, D, 0, 0)
         IN  [floor |-> x.q, integer |-> x.r = 0,
              cmpHalf |-> IF 2 * x.r < D THEN -1 ELSE IF 2 * x.r = D THEN 0 ELSE 1]

\* round(p * 1.011 ^ d), halves to even as Python rounds
Round(p, d) ==
    LET e == Exact(p, d)
    IN  IF e.cmpHalf < 0 THEN e.floor
        ELSE IF e.cmpHalf > 0 THEN e.floor + 1
        ELSE IF e.floor % 2 = 0 THEN e.floor ELSE e.floor + 1

\* mutant: the product rounded, not truncated
ProjectedRounded(p, d) == {Round(p, d)}

\* (population * (growth_rate ** years_diff)).astype(int): the product is a
\* float64 and astype(int) drops its fraction.  growth_rate ** 0 is exactly
\* 1.0.  Otherwise the float product differs from the exact one by a few
\* units in the last place: when the exact product is an integer n the float
\* may fall just below it (1000000 * 1.011 is 1010999.9999999999), and the
\* result is n - 1 or n; in every other case of the model's range the
\* fraction is far from both neighbours and the result is the floor.
Projected(p, d) ==
    LET e == Exact(p, d)
    IN  IF d = 0 THEN {p}
        ELSE IF e.integer THEN {e.floor - 1, e.floor}
        ELSE {e.floor}

\* df['population'] = ...: equal populations get equal results
Projections(rows, d) ==
    LET ps == Range(Pops(rows))
    IN  { [i \in 1..Len(rows) |->
              [rows[i] EXCEPT !.population = Num(f[rows[i].population.v])]] :
          f \in { g \in [ps -> UNION { Projected(p, d) : p \in ps }] :
                    \A p \in ps : g[p] \in Projected(p, d) } }

(***************************************************************************)
(* main.py: Apply Filters.                                                 *)
(***************************************************************************)
\* mutant: the upper end compared with <
InRangeStrict(r, range) == r.population.v >= range[1] /\ r.population.v < range[2]

\* (df['population'] >= pop_range[0]) & (df['population'] <= pop_range[1])
InRange(r, range) == r.population.v >= range[1] /\ r.population.v <= range[2]

\* filtered_df[filtered_df['country'].isin(selected_countries)], applied only
\* when selected_countries is not empty
InCountries(r, selected) == selected = {} \/ r.country.s \in selected

ApplyFilter(rows, range, selected) ==
    LET Keep(r) == InRange(r, range) /\ InCountries(r, selected)
    IN  SelectSeq(rows, Keep)

(***************************************************************************)
(* main.py: metrics.                                                       *)
(***************************************************************************)
RECURSIVE SumSeq(_)
SumSeq(s) == IF s = <<>> THEN 0 ELSE Head(s) + SumSeq(Tail(s))

Dash == [shown |-> "-", text |-> "", num |-> 0, den |-> 1]

\* mutant: the average shown without the empty-view guard
MetricsOfNoGuard(rows) ==
    [total_cities |-> Len(rows),
     total_pop |-> SumSeq(Pops(rows)),
     largest |-> IF rows # <<>>
                 THEN [shown |-> "city", text |-> rows[1].city.s, num |-> 0, den |-> 1]
                 ELSE Dash,
     avg |-> [shown |-> "mean", text |-> "", num |-> SumSeq(Pops(rows)), den |-> Len(rows)]]

MetricsOf(rows) ==
    [total_cities |-> Len(rows),
     total_pop |-> SumSeq(Pops(rows)),
     largest |-> IF rows # <<>>
                 THEN [shown |-> "city", text |-> rows[1].city.s, num |-> 0, den |-> 1]
                 ELSE Dash,
     avg |-> IF rows # <<>>
             THEN [shown |-> "mean", text |-> "", num |-> SumSeq(Pops(rows)), den |-> Len(rows)]
             ELSE Dash]

(***************************************************************************)
(* main.py: City Arena.                                                    *)
(***************************************************************************)
\* filtered_df['city'].unique()
CityNames(rows) == { r.city.s : r \in Range(rows) }

\* filtered_df[filtered_df['city'] == name].iloc[0]
FirstNamed(rows, name) ==
    rows[CHOOSE i \in 1..Len(rows) :
            /\ rows[i].city.s = name
            /\ \A j \in 1..(i - 1) : rows[j].city.s # name]

\* the zones pytz knows, with their offset from UTC in minutes at `now`
KnownZones == {"Asia/Tokyo", "Europe/Paris", "UTC"}
utcoffset(zone) ==
    CASE zone = "Asia/Tokyo" -> 540
      [] zone = "Europe/Paris" -> 60
      [] OTHER -> 0

\* pytz.timezone(city['timezone']) if city['timezone'] else pytz.utc
\*   no timezone column: city['timezone'] is a KeyError
\*   NaN (an empty field): a float, which is truthy, and pytz.timezone raises
\*   "": falsy, pytz.utc
\*   a string: the zone, or UnknownTimeZoneError
ResolveZone(cell) ==
    IF cell.k = "nocol" THEN [ok |-> FALSE, zone |-> ""]
    ELSE IF cell.k = "nan" THEN [ok |-> FALSE, zone |-> ""]
    ELSE IF cell.s = "" THEN [ok |-> TRUE, zone |-> "UTC"]
    ELSE IF cell.s \in KnownZones THEN [ok |-> TRUE, zone |-> cell.s]
    ELSE [ok |-> FALSE, zone |-> ""]

MinutesPerDay == 24 * 60

\* the instants datetime.now(pytz.utc) is drawn from, as minutes of the day
Clock == {30, 900}

Abs(x) == IF x < 0 THEN -x ELSE x

NoComparison ==
    [ran |-> FALSE, city1 |-> "", city2 |-> "", time_diff |-> "N/A", diff_minutes |-> 0,
     c1_time |-> "--:--", c1_minutes |-> 0, c2_time |-> "--:--", c2_minutes |-> 0]

\* lines 143-175: the two rows, then the try block around the zones
Compare(rows, name1, name2, now) ==
    LET city1 == FirstNamed(rows, name1)
        city2 == FirstNamed(rows, name2)
        tz1 == ResolveZone(city1.timezone)
        tz2 == ResolveZone(city2.timezone)
        o1 == utcoffset(tz1.zone)
        o2 == utcoffset(tz2.zone)
    IN  IF tz1.ok /\ tz2.ok
        THEN [ran |-> TRUE, city1 |-> name1, city2 |-> name2,
              time_diff |-> "h", diff_minutes |-> Abs(o1 - o2),
              c1_time |-> "%I:%M %p", c1_minutes |-> (now + o1) % MinutesPerDay,
              c2_time |-> "%I:%M %p", c2_minutes |-> (now + o2) % MinutesPerDay]
        ELSE \* except: both times "--:--", time_diff_str stays "N/A"
             [NoComparison EXCEPT !.ran = TRUE, !.city1 = name1, !.city2 = name2]

(***************************************************************************)
(* main.py: map view state.                                                *)
(***************************************************************************)
Lats(rows) == [i \in 1..Len(rows) |-> rows[i].lat.v]
Lons(rows) == [i \in 1..Len(rows) |-> rows[i].lon.v]

\* a coordinate as the fraction num / den
Coord(n, d) == [num |-> n, den |-> d]

NoView == [set |-> FALSE, view_lat |-> Coord(0, 1), view_lon |-> Coord(0, 1), view_zoom |-> 0]

\* np.average(filtered_df['lat']), np.average(filtered_df['lon']), zoom 2
AverageView(rows) ==
    [set |-> TRUE, view_lat |-> Coord(SumSeq(Lats(rows)), Len(rows)),
     view_lon |-> Coord(SumSeq(Lons(rows)), Len(rows)), view_zoom |-> InitialZoom]

\* the view the Surprise Me handler sets from the sampled row
CityView(r) ==
    [set |-> TRUE, view_lat |-> Coord(r.lat.v, 1), view_lon |-> Coord(r.lon.v, 1),
     view_zoom |-> SurpriseZoom]

(***************************************************************************)
(* st.cache_data.                                                          *)
(***************************************************************************)
NoCache == [set |-> FALSE, frame |-> EmptyFrame, error |-> FALSE]

\* mutant: the memo is the object the caller mutates (st.cache_resource)
cache_shared(memo, mutated) == mutated

\* @st.cache_data stores the pickled return value and hands every caller a
\* fresh copy of it: an assignment into the caller's df leaves the memo as it is
cache_data(memo, mutated) == memo

NoMetrics == [total_cities |-> 0, total_pop |-> 0, largest |-> Dash, avg |-> Dash]
Undefined == [defined |-> FALSE, rows |-> <<>>]

VARIABLES
    source,     \* the CSV behind DATA_URL: [status, header]
    raw,        \* the frame read_csv returned, while load_data runs
    cache,      \* st.cache_data's memo of load_data: [set, frame, error]
    baseline,   \* history: the frame load_data computed when it ran
    everProjected, \* history: an earlier or this run's projection changed df
    session,    \* st.session_state: view_lat, view_lon, view_zoom
    pc,         \* position of the script run
    error,      \* the exception that ended the run, "" if none
    loadError,  \* st.error("Error loading data: ...") shown by this run
    df,         \* the script's df
    min_pop, max_pop, selected_countries, pop_range,
    surprise,   \* the Surprise Me button was pressed for this run
    future_mode, years_diff,
    filtered_df, \* [defined, rows]: a name of the script, unbound until line 96
    metrics, arena,
    shown       \* what the run has put on the page

env == <<source, raw, cache, baseline, everProjected, session>>
run == <<error, loadError, df, min_pop, max_pop, selected_countries, pop_range,
         surprise, future_mode, years_diff, filtered_df, metrics, arena, shown>>
vars == <<env, run, pc>>

Sources ==
    { [status |-> s, header |-> RawColumns] : s \in {"ok", "unreachable", "malformed"} }
    \cup { [status |-> "ok", header |-> RawColumns \ {c}] : c \in RawColumns }

\* the script's namespace when a run starts
FreshRun ==
    /\ error = ""
    /\ loadError = FALSE
    /\ df = EmptyFrame
    /\ min_pop = 0
    /\ max_pop = 0
    /\ selected_countries = {}
    /\ pop_range = <<0, 0>>
    /\ surprise = FALSE
    /\ future_mode = FALSE
    /\ years_diff = 0
    /\ filtered_df = Undefined
    /\ metrics = NoMetrics
    /\ arena = NoComparison
    /\ shown = {}

Init ==
    /\ source \in Sources
    /\ raw = <<>>
    /\ cache = NoCache
    /\ baseline = EmptyFrame
    /\ everProjected = FALSE
    /\ session = NoView
    /\ pc = "start"
    /\ FreshRun

\* df = load_data(), cache miss: pd.read_csv(DATA_URL)
ReadCsv ==
    /\ pc = "start"
    /\ ~cache.set
    /\ IF source.status = "ok"
       THEN /\ \E t \in Tables : raw' = read_csv(t, source.header)
            /\ pc' = "fetched"
            /\ UNCHANGED <<cache, baseline, loadError, df>>
       ELSE \* read_csv raises; except Exception: st.error, return pd.DataFrame()
            /\ raw' = <<>>
            /\ cache' = [set |-> TRUE, frame |-> EmptyFrame, error |-> TRUE]
            /\ baseline' = EmptyFrame
            /\ loadError' = TRUE
            /\ df' = EmptyFrame
            /\ pc' = "loaded"
    /\ UNCHANGED <<source, everProjected, session, error, min_pop, max_pop,
                   selected_countries, pop_range, surprise, future_mode, years_diff,
                   filtered_df, metrics, arena, shown>>

\* load_data lines 25-45 on the frame read; a KeyError is caught at line 47
Normalise ==
    /\ pc = "fetched"
    /\ IF RequiredColumns \subseteq Rename(source.header)
       THEN \E s \in sort_values(Cleaned(raw)) :
              LET frame == [cols |-> Rename(source.header), rows |-> head(s, HeadLimit)]
              IN  /\ cache' = [set |-> TRUE, frame |-> frame, error |-> FALSE]
                  /\ baseline' = frame
                  /\ df' = frame
                  /\ loadError' = FALSE
       ELSE /\ cache' = [set |-> TRUE, frame |-> EmptyFrame, error |-> TRUE]
            /\ baseline' = EmptyFrame
            /\ df' = EmptyFrame
            /\ loadError' = TRUE
    /\ pc' = "loaded"
    /\ UNCHANGED <<source, raw, everProjected, session, error, min_pop, max_pop,
                   selected_countries, pop_range, surprise, future_mode, years_diff,
                   filtered_df, metrics, arena, shown>>

\* df = load_data(), cache hit: a copy of the memo, its st.error replayed
CacheHit ==
    /\ pc = "start"
    /\ cache.set
    /\ df' = cache.frame
    /\ loadError' = cache.error
    /\ pc' = "loaded"
    /\ UNCHANGED <<env, error, min_pop, max_pop, selected_countries, pop_range,
                   surprise, future_mode, years_diff, filtered_df, metrics, arena, shown>>

\* lines 34-36: if df.empty: st.error(...); st.stop()
CheckEmpty ==
    /\ pc = "loaded"
    /\ raw' = <<>>
    /\ IF df.rows = <<>>
       THEN /\ shown' = shown \cup {"error: Failed to load data"}
            /\ pc' = "stopped"
       ELSE /\ pc' = "sidebar"
            /\ UNCHANGED shown
    /\ UNCHANGED <<source, cache, baseline, everProjected, session, error, loadError, df,
                   min_pop, max_pop, selected_countries, pop_range, surprise, future_mode,
                   years_diff, filtered_df, metrics, arena>>

\* lines 39-68: the country multiselect and the population slider
Sidebar ==
    /\ pc = "sidebar"
    /\ min_pop' = PopMin(df.rows)
    /\ max_pop' = PopMax(df.rows)
    /\ IF SliderAccepts(PopMin(df.rows), PopMax(df.rows))
       THEN /\ selected_countries' \in SUBSET countries(df.rows)
            /\ pop_range' \in SliderRanges(PopMin(df.rows), PopMax(df.rows))
            /\ pc' = "surprise"
            /\ UNCHANGED error
       ELSE /\ error' = "StreamlitAPIException"
            /\ pc' = "raised"
            /\ UNCHANGED <<selected_countries, pop_range>>
    /\ UNCHANGED <<env, loadError, df, surprise, future_mode, years_diff, filtered_df,
                   metrics, arena, shown>>

\* lines 70-78: the Surprise Me button and its handler
SurpriseMe ==
    /\ pc = "surprise"
    /\ \E pressed \in BOOLEAN :
         /\ surprise' = pressed
         /\ IF ~pressed
            THEN /\ pc' = "timemachine"
                 /\ UNCHANGED <<session, error, shown>>
            ELSE IF ~filtered_df.defined
            THEN \* filtered_df is read before line 96 binds it
                 /\ error' = "NameError"
                 /\ pc' = "raised"
                 /\ UNCHANGED <<session, shown>>
            ELSE IF filtered_df.rows # <<>>
            THEN /\ \E i \in 1..Len(filtered_df.rows) :
                       session' = CityView(filtered_df.rows[i])
                 /\ shown' = shown \cup {"toast: Flying to"}
                 /\ pc' = "timemachine"
                 /\ UNCHANGED error
            ELSE /\ shown' = shown \cup {"warning: No cities in current filter to fly to!"}
                 /\ pc' = "timemachine"
                 /\ UNCHANGED <<session, error>>
    /\ UNCHANGED <<source, raw, cache, baseline, everProjected, loadError, df, min_pop,
                   max_pop, selected_countries, pop_range, future_mode, years_diff,
                   filtered_df, metrics, arena>>

\* lines 82-93: the Time Machine toggle and the projection
TimeMachine ==
    /\ pc = "timemachine"
    /\ \E on \in BOOLEAN :
         /\ future_mode' = on
         /\ IF on
            THEN \E d \in (-MaxYearsBack)..MaxYearsAhead :
                   \E rows \in Projections(df.rows, d) :
                     /\ years_diff' = d
                     /\ df' = [df EXCEPT !.rows = rows]
                     /\ cache' = cache_data(cache, [cache EXCEPT !.frame.rows = rows])
                     /\ everProjected' = (everProjected \/ rows # df.rows)
            ELSE UNCHANGED <<years_diff, df, cache, everProjected>>
    /\ pc' = "filter"
    /\ UNCHANGED <<source, raw, baseline, session, error, loadError, min_pop, max_pop,
                   selected_countries, pop_range, surprise, filtered_df, metrics, arena,
                   shown>>

\* lines 96-103
ApplyFilters ==
    /\ pc = "filter"
    /\ filtered_df' = [defined |-> TRUE,
                       rows |-> ApplyFilter(df.rows, pop_range, selected_countries)]
    /\ pc' = "metrics"
    /\ UNCHANGED <<env, error, loadError, df, min_pop, max_pop, selected_countries,
                   pop_range, surprise, future_mode, years_diff, metrics, arena, shown>>

\* lines 106-124
Metrics ==
    /\ pc = "metrics"
    /\ metrics' = MetricsOf(filtered_df.rows)
    /\ pc' = "arena"
    /\ UNCHANGED <<env, error, loadError, df, min_pop, max_pop, selected_countries,
                   pop_range, surprise, future_mode, years_diff, filtered_df, arena, shown>>

\* lines 132-220: the two select boxes offer every city name of the view
Arena ==
    /\ pc = "arena"
    /\ IF Len(filtered_df.rows) > 1
       THEN /\ \E n1 \in CityNames(filtered_df.rows), n2 \in CityNames(filtered_df.rows),
                 now \in Clock :
                   arena' = Compare(filtered_df.rows, n1, n2, now)
            /\ UNCHANGED shown
       ELSE /\ arena' = NoComparison
            /\ shown' = shown \cup {"info: Need at least 2 cities for comparison"}
    /\ pc' = "map"
    /\ UNCHANGED <<env, error, loadError, df, min_pop, max_pop, selected_countries,
                   pop_range, surprise, future_mode, years_diff, filtered_df, metrics>>

\* lines 223-307
Map ==
    /\ pc = "map"
    /\ IF filtered_df.rows # <<>>
       THEN /\ session' = IF session.set THEN session ELSE AverageView(filtered_df.rows)
            /\ shown' = shown \cup {"map"} \cup (IF arena.ran THEN {"arc"} ELSE {})
       ELSE /\ shown' = shown \cup {"warning: No cities found with the current filters."}
            /\ UNCHANGED session
    /\ pc' = "charts"
    /\ UNCHANGED <<source, raw, cache, baseline, everProjected, error, loadError, df,
                   min_pop, max_pop, selected_countries, pop_range, surprise, future_mode,
                   years_diff, filtered_df, metrics, arena>>

\* lines 311-372: the two charts, then the data table
Charts ==
    /\ pc = "charts"
    /\ shown' = shown \cup (IF filtered_df.rows # <<>> THEN {"bar", "treemap"} ELSE {})
                      \cup {"table"}
    /\ pc' = "done"
    /\ UNCHANGED <<env, error, loadError, df, min_pop, max_pop, selected_countries,
                   pop_range, surprise, future_mode, years_diff, filtered_df, metrics, arena>>

\* any interaction reruns the script from its first line with a new namespace
Rerun ==
    /\ pc \in {"done", "stopped", "raised"}
    /\ pc' = "start"
    /\ error' = ""
    /\ loadError' = FALSE
    /\ df' = EmptyFrame
    /\ min_pop' = 0
    /\ max_pop' = 0
    /\ selected_countries' = {}
    /\ pop_range' = <<0, 0>>
    /\ surprise' = FALSE
    /\ future_mode' = FALSE
    /\ years_diff' = 0
    /\ filtered_df' = Undefined
    /\ metrics' = NoMetrics
    /\ arena' = NoComparison
    /\ shown' = {}
    /\ UNCHANGED env

Next ==
    \/ ReadCsv
    \/ Normalise
    \/ CacheHit
    \/ CheckEmpty
    \/ Sidebar
    \/ SurpriseMe
    \/ TimeMachine
    \/ ApplyFilters
    \/ Metrics
    \/ Arena
    \/ Map
    \/ Charts
    \/ Rerun

Spec == Init /\ [][Next]_vars

(***************************************************************************)
(* Properties.                                                             *)
(***************************************************************************)
\* load_data ran in this run and has just returned: raw is still at hand
JustLoaded == pc = "loaded" /\ raw # <<>>
\* ... and it returned the frame it built, not the empty frame of a failure
LoadedFrame == JustLoaded /\ ~loadError

NonIncreasing(rows) ==
    \A i \in 1..Len(rows) : \A j \in i..Len(rows) :
        rows[i].population.v >= rows[j].population.v

\* C1: the frame load_data returns holds only records whose lat, lon,
\* population, city and country are present (each is a raw record whose
\* latitude, longitude and population were numeric, with those very values),
\* every population is above 10000, there are at most HeadLimit (5000 in the
\* code) records, and populations are non-increasing.
C1_LoaderContract ==
    /\ pc = "loaded" =>
         /\ Len(df.rows) <= HeadLimit
         /\ NonIncreasing(df.rows)
         /\ \A i \in 1..Len(df.rows) :
              /\ df.rows[i].lat.k = "num"
              /\ df.rows[i].lon.k = "num"
              /\ df.rows[i].population.k = "num"
              /\ df.rows[i].city.k = "str"
              /\ df.rows[i].country.k = "str"
              /\ df.rows[i].population.v > 10000
    /\ JustLoaded =>
         \A i \in 1..Len(df.rows) : \E j \in 1..Len(raw) :
              /\ raw[j].latitude.k = "num"
              /\ raw[j].longitude.k = "num"
              /\ raw[j].population.k = "num"
              /\ df.rows[i].lat = raw[j].latitude
              /\ df.rows[i].lon = raw[j].longitude
              /\ df.rows[i].population = raw[j].population
              /\ df.rows[i].city = raw[j].name
              /\ df.rows[i].country = raw[j].country_name

\* a table with a non-numeric latitude, more clean rows than the head keeps,
\* and a full frame returned
C1_Witness ==
    /\ JustLoaded
    /\ \E j \in 1..Len(raw) : raw[j].latitude.k = "text"
    /\ Len(Cleaned(raw)) > HeadLimit
    /\ Len(df.rows) = HeadLimit

\* the source fails as the claim has it: unreachable, malformed, or without
\* one of the six header columns
FailsAsClaimed == source.status # "ok" \/ source.header # RawColumns

\* the source fails as the code has it: timezone is not needed to load
FailsInCode ==
    \/ source.status # "ok"
    \/ \E c \in RawColumns \ {"timezone"} : c \notin source.header

\* load_data has returned an empty frame with its error shown, and the run
\* is at the caller's check or stopped by it with nothing but its message
EmptyAndStopped ==
    /\ df.rows = <<>>
    /\ loadError
    /\ error = ""
    /\ pc \in {"loaded", "stopped"}
    /\ pc = "stopped" => shown = {"error: Failed to load data"}
    /\ filtered_df = Undefined /\ metrics = NoMetrics /\ arena = NoComparison

\* C2 as claimed: a source that is unreachable, malformed or lacks any one of
\* the six header columns makes load_data return an empty frame and signal an
\* error, and the caller stops without running a later step.
C2_Original == (FailsAsClaimed /\ pc \notin {"start", "fetched"}) => EmptyAndStopped

\* C2 as amended: the same for a source that is unreachable, malformed or
\* lacks one of name, country_name, latitude, longitude, population; a source
\* that lacks only timezone loads without an error.
C2_LoadFailure ==
    /\ (FailsInCode /\ pc \notin {"start", "fetched"}) => EmptyAndStopped
    /\ (~FailsInCode /\ pc \notin {"start", "fetched"}) => ~loadError

\* a source without its latitude column has stopped the run
C2_Witness ==
    /\ source.status = "ok"
    /\ "latitude" \notin source.header
    /\ pc = "stopped"
    /\ loadError

\* C3: the filtered view holds exactly the records of df with
\* min <= population <= max whose country is selected (any country when none
\* is selected), in df's order; when none qualifies the view is empty and
\* nothing is raised.
C3_FilterExact ==
    filtered_df.defined =>
      LET rows == df.rows
          view == filtered_df.rows
          keep == { i \in 1..Len(rows) :
                      /\ pop_range[1] <= rows[i].population.v
                      /\ rows[i].population.v <= pop_range[2]
                      /\ (selected_countries = {} \/ rows[i].country.s \in selected_countries) }
      IN  /\ Len(view) = Cardinality(keep)
          /\ \E f \in [1..Len(view) -> keep] :
               /\ \A a \in 1..Len(view) : \A b \in 1..Len(view) : a < b => f[a] < f[b]
               /\ \A a \in 1..Len(view) : view[a] = rows[f[a]]
          /\ error = ""

\* a country is selected and the view keeps some records of df and drops others
C3_Witness ==
    /\ filtered_df.defined
    /\ selected_countries # {}
    /\ filtered_df.rows # <<>>
    /\ Len(filtered_df.rows) < Len(df.rows)

\* C4 as claimed: once a run has applied the projection, the cached
\* population column stays transformed, so a later run starts from the
\* projected values and not from the loaded ones.
C4_Original ==
    (pc = "loaded" /\ everProjected) =>
        /\ cache.frame # baseline
        /\ df.rows # baseline.rows

\* C4 as amended: the projection transforms the run's own copy of the frame.
\* The cached frame is never changed, every run starts from the populations
\* load_data computed, and a run with the projection enabled holds the loaded
\* populations projected once by that run's year difference, whatever earlier
\* runs did.
C4_PerRunProjection ==
    /\ cache.set => cache.frame = baseline
    /\ pc \in {"loaded", "sidebar", "surprise", "timemachine"} => df = baseline
    /\ pc \in {"filter", "metrics", "arena", "map", "charts", "done"} =>
         /\ Len(df.rows) = Len(baseline.rows)
         /\ \A i \in 1..Len(df.rows) :
              /\ ~future_mode => df.rows[i] = baseline.rows[i]
              /\ future_mode =>
                   df.rows[i].population.v
                     \in Projected(baseline.rows[i].population.v, years_diff)

\* a run that follows a run whose projection changed the populations
C4_Witness == pc = "loaded" /\ everProjected /\ df.rows # <<>>

\* C5 as claimed: the projected population is round(p * 1.011 ^ d).
C5_Original ==
    (pc = "filter" /\ future_mode) =>
        \A i \in 1..Len(df.rows) :
            df.rows[i].population.v = Round(baseline.rows[i].population.v, years_diff)

\* C5 as amended: the projected population is the float product
\* p * 1.011 ^ d with its fraction dropped (astype(int)), not rounded: it is
\* within one unit of p * 1.011 ^ d and can be one less than its rounding.
\* Over the populations and year differences of the model it is the floor of
\* the exact product, or one less where that product is an integer and the
\* float falls short of it; d = 0 returns exactly p, and p = 1,000,000 with
\* d = 1 returns 1,011,000 within one unit.
C5_Truncates ==
    (pc = "filter" /\ future_mode) =>
        \A i \in 1..Len(df.rows) :
            LET p == baseline.rows[i].population.v
                q == df.rows[i].population.v
                e == Exact(p, years_diff)
            IN  /\ e.floor - 1 <= q /\ q <= e.floor
                /\ ~e.integer => q = e.floor
                /\ years_diff = 0 => q = p
                /\ (p = 1000000 /\ years_diff = 1) => (1010999 <= q /\ q <= 1011001)

\* one year ahead, 10050 * 1.011 = 10160.55 has become 10160
C5_Witness ==
    /\ pc = "filter" /\ future_mode /\ years_diff = 1
    /\ \E i \in 1..Len(df.rows) :
         /\ baseline.rows[i].population.v = 10050
         /\ df.rows[i].population.v = 10160

\* the timezone cell is absent (NaN) or names no zone
BadZone(cell) == cell.k = "nan" \/ (cell.k = "str" /\ cell.s \notin KnownZones)
GoodZone(cell) == cell.k = "str" /\ cell.s \in KnownZones

\* C6: when one of the two compared cities has an absent or invalid timezone
\* and the other a valid one, the comparison gives a numeric time difference
\* and real local times, the first city's zone taken as UTC.
C6_Claim ==
    (pc = "map" /\ arena.ran) =>
        LET c1 == FirstNamed(filtered_df.rows, arena.city1)
            c2 == FirstNamed(filtered_df.rows, arena.city2)
        IN  /\ (BadZone(c1.timezone) /\ GoodZone(c2.timezone)) =>
                 /\ arena.time_diff = "h"
                 /\ arena.diff_minutes = Abs(utcoffset(c2.timezone.s))
                 /\ arena.c1_time # "--:--" /\ arena.c2_time # "--:--"
            /\ (GoodZone(c1.timezone) /\ BadZone(c2.timezone)) =>
                 /\ arena.time_diff = "h"
                 /\ arena.diff_minutes = Abs(utcoffset(c1.timezone.s))
                 /\ arena.c1_time # "--:--" /\ arena.c2_time # "--:--"

RECURSIVE CountOf(_, _)
CountOf(r, rows) ==
    IF rows = <<>> THEN 0
    ELSE (IF Head(rows) = r THEN 1 ELSE 0) + CountOf(r, Tail(rows))

\* C7 as claimed: the sort is stable, so the frame returned is the first
\* HeadLimit rows of the clean rows stably sorted by descending population.
C7_Original ==
    LoadedFrame => df.rows = head(StableSortDesc(Cleaned(raw)), HeadLimit)

\* C7 as amended: the sort orders by descending population alone; records of
\* equal population come out in an order the code does not fix.  The
\* populations of the frame returned are determined by the input (those of
\* the stable sort's first HeadLimit rows) and its records are clean records
\* of the input, none more often than there.
C7_SortedUpToTies ==
    LoadedFrame =>
        /\ Pops(df.rows) = Pops(head(StableSortDesc(Cleaned(raw)), HeadLimit))
        /\ \A i \in 1..Len(df.rows) :
             CountOf(df.rows[i], df.rows) <= CountOf(df.rows[i], Cleaned(raw))

\* two records of equal population returned against their order in the input
C7_Witness ==
    /\ LoadedFrame
    /\ Len(df.rows) >= 2
    /\ df.rows[1].population = df.rows[2].population
    /\ df.rows[1] # df.rows[2]
    /\ \E a \in 1..Len(Cleaned(raw)) : \E b \in 1..Len(Cleaned(raw)) :
         /\ a < b
         /\ Cleaned(raw)[a] = df.rows[2]
         /\ Cleaned(raw)[b] = df.rows[1]
         /\ \A c \in 1..Len(Cleaned(raw)) : Cleaned(raw)[c] = df.rows[1] => c > a

EmptyView == filtered_df.defined /\ filtered_df.rows = <<>>

\* C8: a run whose filtered view is empty raises nothing; its metrics show
\* "-" for the largest city and the average, no contender is chosen and no
\* comparison computed (that takes at least 2 records), and the map and the
\* charts are skipped.
C8_EmptyView ==
    /\ EmptyView =>
         /\ error = "" /\ pc \in {"metrics", "arena", "map", "charts", "done"}
         /\ pc \in {"arena", "map", "charts", "done"} =>
              /\ metrics.largest.shown = "-"
              /\ metrics.avg.shown = "-"
              /\ metrics.total_cities = 0
         /\ ~arena.ran /\ arena.city1 = "" /\ arena.city2 = ""
         /\ "map" \notin shown /\ "bar" \notin shown /\ "treemap" \notin shown
         /\ pc \in {"charts", "done"} =>
              "warning: No cities found with the current filters." \in shown
    /\ arena.ran => Len(filtered_df.rows) >= 2

\* a run with an empty view has reached its last line
C8_Witness == EmptyView /\ pc = "done"

\* C9: a run in which Surprise Me is pressed does not fail on the filtered
\* view being unbound where the handler runs; the handler leaves the view
\* state at a record of the view (zoom 10) or, on an empty view, unchanged.
C9_Claim ==
    /\ (surprise /\ pc # "surprise") =>
          /\ error # "NameError"
          /\ pc # "raised"
    /\ (surprise /\ filtered_df.defined) =>
          /\ filtered_df.rows # <<>> =>
                \E i \in 1..Len(filtered_df.rows) : session = CityView(filtered_df.rows[i])
          /\ filtered_df.rows = <<>> =>
                "warning: No cities in current filter to fly to!" \in shown

\* C10: with the slider at its default range and no country selected, a
\* most populous record of df is in the filtered view: every population the
\* filter sees is at most the slider's max_pop.
C10_Claim ==
    (filtered_df.defined /\ pop_range = <<DefaultMinPop, max_pop>>
        /\ selected_countries = {}) =>
        /\ \A i \in 1..Len(df.rows) : df.rows[i].population.v <= max_pop
        /\ \E i \in 1..Len(df.rows) :
             /\ \A j \in 1..Len(df.rows) :
                  df.rows[j].population.v <= df.rows[i].population.v
             /\ \E k \in 1..Len(filtered_df.rows) : filtered_df.rows[k] = df.rows[i]

=============================================================================
